---- MODULE Spec2Model ----
(***************************************************************************)
(* Model of src/portfolio_tab.py: the InvestmentCloud value object, the    *)
(* linear program built and solved by calculate_optimal_asset_dist, and    *)
(* the colour table of display_assets_pie.                                 *)
(*                                                                         *)
(* Numbers are fixed-point hundredths: the Python literal 1 is One, .55 is *)
(* 55, an expected return of 0.15 is 15.  A string is the sequence of its  *)
(* characters, so that renaming and formatting are computed, not assumed.  *)
(***************************************************************************)
EXTENDS Integers, Sequences, FiniteSets, TLC

VARIABLES
    investment_clouds,  \* the caller's list of InvestmentCloud objects
    ctor,               \* the last InvestmentCloud(...) call and how it ended
    outcome,            \* the last calculate_optimal_asset_dist call and how it ended
    pie,                \* the last display_assets_pie call: what was handed to ax.pie
    phase               \* "building" | "aborted" | "solved" | "drawn"

vars == <<investment_clouds, ctor, outcome, pie, phase>>

\* The literal 1 of "maximum > 1" and "== 1", in hundredths.
One == 100

\* Longest list of clouds the caller builds through AddCloud.
MaxClouds == 2

\* Longest list of assets handed directly to display_assets_pie.
MaxAssets == 7

None == "None"

-----------------------------------------------------------------------------
(* Arithmetic helpers *)

RECURSIVE SumSeq(_)
SumSeq(s) == IF s = <<>> THEN 0 ELSE Head(s) + SumSeq(Tail(s))

RECURSIVE GCD(_, _)
GCD(a, b) == IF b = 0 THEN a ELSE GCD(b, a % b)

RECURSIVE GCDSeq(_)
GCDSeq(s) == IF s = <<>> THEN 0 ELSE GCD(Head(s), GCDSeq(Tail(s)))

Dot(a, b) == SumSeq([i \in 1..Len(a) |-> a[i] * b[i]])

-----------------------------------------------------------------------------
(* Inputs *)

Label_SP        == <<"S", "&", "P">>
Label_Apple     == <<"A", "p", "p", "l", "e">>
Label_Microsoft == <<"M", "i", "c", "r", "o", "s", "o", "f", "t">>
Label_Facebook  == <<"F", "a", "c", "e", "b", "o", "o", "k">>
Label_CocaCola  == <<"C", "o", "c", "a", "-", "C", "o", "l", "a">>

\* Labels the caller may pass to the constructor.
Labels == {Label_SP, Label_Apple, Label_CocaCola}

\* Expected returns the caller may pass: a loss, nothing, a gain.
Returns == {-10, 0, 20}

\* Minimums and maximums the caller may pass, two of them out of [0, 1].
Fractions == {-50, 0, 50, 100, 150}

-----------------------------------------------------------------------------
(* InvestmentCloud and AssetDist *)

InvalidParametersNoUpper(minimum, maximum) ==
    minimum < 0 \/ minimum > maximum

\* The guard of InvestmentCloud.__init__.
InvalidParameters(minimum, maximum) ==
    minimum < 0 \/ minimum > maximum \/ maximum > One

\* The attributes InvestmentCloud.__init__ sets when it does not raise.
NewCloud(asset, expected_return, minimum, maximum) ==
    [asset |-> asset, expected_return |-> expected_return,
     minimum |-> minimum, maximum |-> maximum]

\* One call of the constructor: what it raised and the object it made, if any.
InvestmentCloud(asset, expected_return, minimum, maximum) ==
    IF InvalidParameters(minimum, maximum)
    THEN [called |-> TRUE,
          args   |-> <<asset, expected_return, minimum, maximum>>,
          raised |-> "InvalidInvestmentCloudParameterError",
          made   |-> <<>>]
    ELSE [called |-> TRUE,
          args   |-> <<asset, expected_return, minimum, maximum>>,
          raised |-> None,
          made   |-> <<NewCloud(asset, expected_return, minimum, maximum)>>]

AssetDist(name, proportion) == [name |-> name, proportion |-> proportion]

\* The list literal of render.
RenderClouds ==
    <<InvestmentCloud(Label_SP,        15, 10, 55),
      InvestmentCloud(Label_Apple,     20, 11, 50),
      InvestmentCloud(Label_Microsoft, 30,  5, 50),
      InvestmentCloud(Label_Facebook,  10, 20, 60)>>

-----------------------------------------------------------------------------
(* The linear program of calculate_optimal_asset_dist *)

\* Characters an LpVariable replaces by "_" in its name.
IllegalChars == {"-", "+", "[", "]", " ", ">", "/"}

\* The name LpVariable(asset, ...) ends with.
LpName(asset) ==
    [i \in 1..Len(asset) |-> IF asset[i] \in IllegalChars THEN "_" ELSE asset[i]]

UnitVector(n, i) == [j \in 1..n |-> IF j = i THEN 1 ELSE 0]

SenseMinimize == "LpMinimize"

\* LpProblem("Total expected return", LpMaximize)
Sense == "LpMaximize"

BoundConstraintsNoMinimum(clouds) ==
    [k \in 1..Len(clouds) |->
        [coef |-> UnitVector(Len(clouds), k), rel |-> "<=", rhs |-> clouds[k].maximum]]

BoundConstraintsNoMaximum(clouds) ==
    [k \in 1..Len(clouds) |->
        [coef |-> UnitVector(Len(clouds), k), rel |-> ">=", rhs |-> clouds[k].minimum]]

\* The loop adding "minimum <= x_i" and "maximum >= x_i" for every i.
BoundConstraints(clouds) ==
    [k \in 1..(2 * Len(clouds)) |->
        LET i == (k + 1) \div 2 IN
        IF k % 2 = 1
        THEN [coef |-> UnitVector(Len(clouds), i), rel |-> ">=", rhs |-> clouds[i].minimum]
        ELSE [coef |-> UnitVector(Len(clouds), i), rel |-> "<=", rhs |-> clouds[i].maximum]]

\* model += sum(asset_dists) == 1
TotalConstraint(clouds) ==
    [coef |-> [j \in 1..Len(clouds) |-> 1], rel |-> "==", rhs |-> One]

\* The LpProblem as it stands when model.solve() is called.
BuildModel(clouds) ==
    [sense       |-> Sense,
     names       |-> [i \in 1..Len(clouds) |-> LpName(clouds[i].asset)],
     lowBound    |-> [i \in 1..Len(clouds) |-> 0],
     objective   |-> [i \in 1..Len(clouds) |-> clouds[i].expected_return],
     constraints |-> BoundConstraints(clouds),
     total       |-> TotalConstraint(clouds)]

Satisfies(x, c) ==
    CASE c.rel = ">=" -> Dot(c.coef, x) >= c.rhs
      [] c.rel = "<=" -> Dot(c.coef, x) <= c.rhs
      [] c.rel = "==" -> Dot(c.coef, x) = c.rhs

\* The values at which a bound of variable i is active: its lowBound and the
\* right-hand side of every constraint on it alone.
AtBound(lp, i) ==
    {lp.lowBound[i]} \cup
    {lp.constraints[k].rhs : k \in {m \in 1..Len(lp.constraints) : lp.constraints[m].coef[i] # 0}}

RECURSIVE AtBounds(_, _)
AtBounds(lp, k) ==
    IF k = 0 THEN {<<>>}
    ELSE {Append(p, v) : p \in AtBounds(lp, k - 1), v \in AtBound(lp, k)}

\* The basic solutions of the program: every variable but one at a bound, the
\* remaining one set by the total constraint.
BasicPoints(lp) ==
    {[p EXCEPT ![j] = lp.total.rhs - (SumSeq(p) - p[j])] :
        p \in AtBounds(lp, Len(lp.names)), j \in 1..Len(lp.names)}

Feasible(lp, x) ==
    /\ \A i \in 1..Len(x) : x[i] >= lp.lowBound[i]
    /\ \A k \in 1..Len(lp.constraints) : Satisfies(x, lp.constraints[k])
    /\ Satisfies(x, lp.total)

\* The vertices of the feasible region.
FeasiblePoints(lp) == {x \in BasicPoints(lp) : Feasible(lp, x)}

Better(sense, a, b) == IF sense = "LpMaximize" THEN a >= b ELSE a <= b

OptimalPoints(lp, F) ==
    {y \in F : \A z \in F : Better(lp.sense, Dot(lp.objective, y), Dot(lp.objective, z))}

\* What model.solve() may leave behind: a status and, when optimal, the values
\* of the variables at any optimal vertex (a simplex solver ends on one; which
\* one, among several, is the solver's choice).  The values left behind with
\* another status are never read.
Solve(lp) ==
    IF FeasiblePoints(lp) = {}
    THEN {[status |-> -1, values |-> [i \in 1..Len(lp.names) |-> 0]]}
    ELSE {[status |-> 1, values |-> x] : x \in OptimalPoints(lp, FeasiblePoints(lp))}

\* pulp.LpStatus
LpStatus(status) ==
    CASE status = 1  -> "Optimal"
      [] status = 0  -> "Not Solved"
      [] status = -1 -> "Infeasible"
      [] status = -2 -> "Unbounded"
      [] status = -3 -> "Undefined"

NotOptimalIgnored(status) == FALSE

\* if LpStatus[model.status] != "Optimal"
NotOptimal(status) == LpStatus(status) # "Optimal"

NoOutcome == [called |-> FALSE, raised |-> None, result |-> <<>>, values |-> <<>>]

\* The ways one call of calculate_optimal_asset_dist(clouds) may end.
calculate_optimal_asset_dist(clouds) ==
    LET model == BuildModel(clouds) IN
    {IF NotOptimal(s.status)
     THEN [called |-> TRUE, raised |-> "NonFeasibleSolutionError",
           result |-> <<>>, values |-> <<>>]
     ELSE [called |-> TRUE, raised |-> None,
           result |-> <<[i \in 1..Len(clouds) |-> AssetDist(model.names[i], s.values[i])]>>,
           values |-> s.values]
     : s \in Solve(model)}

-----------------------------------------------------------------------------
(* The colour table of display_assets_pie *)

rgb_component_swapped(status) == IF status # 0 THEN <<"3", "3">> ELSE <<"C", "C">>

\* return "CC" if status else "33"
rgb_component(status) == IF status # 0 THEN <<"C", "C">> ELSE <<"3", "3">>

is_white(r, g, b) == r = 1 /\ g = 1 /\ b = 1

is_black_never(r, g, b) == FALSE

is_black(r, g, b) == r = 0 /\ g = 0 /\ b = 0

\* for b in [0, 1] for g in [0, 1] for r in [0, 1]: b outermost, r innermost.
RgbLoop ==
    [k \in 1..8 |-> <<(k - 1) % 2, ((k - 1) \div 2) % 2, ((k - 1) \div 4) % 2>>]

KeepRgb(rgb) == ~is_white(rgb[1], rgb[2], rgb[3]) /\ ~is_black(rgb[1], rgb[2], rgb[3])

rgb_binary_combinations == SelectSeq(RgbLoop, KeepRgb)

\* f"#{rgb_component(rgb[0])}{rgb_component(rgb[1])}{rgb_component(rgb[2])}"
ColorOf(rgb) ==
    <<"#">> \o rgb_component(rgb[1]) \o rgb_component(rgb[2]) \o rgb_component(rgb[3])

colors == [k \in 1..Len(rgb_binary_combinations) |-> ColorOf(rgb_binary_combinations[k])]

\* ax.pie(..., colors=colors): wedge i takes the next colour of a cycle over colors.
WedgeColors(n, palette) == [i \in 1..n |-> palette[((i - 1) % Len(palette)) + 1]]

display_assets_pie_capped(assets) ==
    [called      |-> TRUE,
     raised      |-> IF Len(assets) > Len(colors)
                     THEN "InsufficientPaletteCapacityError" ELSE None,
     n           |-> Len(assets),
     labels      |-> [i \in 1..Len(assets) |-> assets[i].name],
     proportions |-> [i \in 1..Len(assets) |-> assets[i].proportion * 100],
     colors      |-> colors,
     wedges      |-> IF Len(assets) > Len(colors)
                     THEN <<>> ELSE WedgeColors(Len(assets), colors)]

NoPie == [called |-> FALSE, raised |-> None, n |-> 0, labels |-> <<>>,
          proportions |-> <<>>, colors |-> <<>>, wedges |-> <<>>]

\* One call of display_assets_pie(assets): the arguments ax.pie receives and
\* the colour each wedge is drawn with.  The function raises nothing itself.
display_assets_pie(assets) ==
    [called      |-> TRUE,
     raised      |-> None,
     n           |-> Len(assets),
     labels      |-> [i \in 1..Len(assets) |-> assets[i].name],
     proportions |-> [i \in 1..Len(assets) |-> assets[i].proportion * 100],
     colors      |-> colors,
     wedges      |-> WedgeColors(Len(assets), colors)]

\* A list of n assets as a caller other than render may hand over: the whole
\* unit on the first asset.
DirectAssets(n) ==
    [i \in 1..n |-> AssetDist(<<"a">>, IF i = 1 THEN One ELSE 0)]

-----------------------------------------------------------------------------
(* The state machine *)

NoCtor == [called |-> FALSE, args |-> <<>>, raised |-> None, made |-> <<>>]

Init ==
    /\ investment_clouds = <<>>
    /\ ctor = NoCtor
    /\ outcome = NoOutcome
    /\ pie = NoPie
    /\ phase = "building"

AssetsOf(clouds) == {clouds[i].asset : i \in 1..Len(clouds)}

\* The caller constructs one more cloud for its list.  A constructor that
\* raises leaves the caller without a list, as in the list literal of render.
AddCloud ==
    /\ phase = "building"
    /\ Len(investment_clouds) < MaxClouds
    /\ \E asset \in Labels \ AssetsOf(investment_clouds), expected_return \in Returns,
          minimum \in Fractions, maximum \in Fractions :
          LET c == InvestmentCloud(asset, expected_return, minimum, maximum) IN
          /\ ctor' = c
          /\ IF c.raised # None
             THEN investment_clouds' = <<>> /\ phase' = "aborted"
             ELSE investment_clouds' = investment_clouds \o c.made /\ phase' = phase
    /\ UNCHANGED <<outcome, pie>>

\* render builds its four hard-coded clouds.
Render ==
    /\ phase = "building"
    /\ investment_clouds = <<>>
    /\ \A i \in 1..Len(RenderClouds) : RenderClouds[i].raised = None
    /\ investment_clouds' = [i \in 1..Len(RenderClouds) |-> RenderClouds[i].made[1]]
    /\ ctor' = RenderClouds[Len(RenderClouds)]
    /\ UNCHANGED <<outcome, pie, phase>>

\* "Optimise portfolio": calculate_optimal_asset_dist(investment_clouds).
Optimise ==
    /\ phase \in {"building", "solved"}
    /\ Len(investment_clouds) >= 1
    /\ \E o \in calculate_optimal_asset_dist(investment_clouds) : outcome' = o
    /\ phase' = "solved"
    /\ UNCHANGED <<investment_clouds, ctor, pie>>

\* display_assets_pie(optimised_asset_dist), reached only when nothing was raised.
DisplayOptimised ==
    /\ phase = "solved"
    /\ outcome.raised = None
    /\ pie' = display_assets_pie(outcome.result[1])
    /\ phase' = "drawn"
    /\ UNCHANGED <<investment_clouds, ctor, outcome>>

\* display_assets_pie called directly with a list of n assets.
DisplayDirect ==
    /\ phase = "building"
    /\ investment_clouds = <<>>
    /\ \E n \in 1..MaxAssets : pie' = display_assets_pie(DirectAssets(n))
    /\ phase' = "drawn"
    /\ UNCHANGED <<investment_clouds, ctor, outcome>>

Next == AddCloud \/ Render \/ Optimise \/ DisplayOptimised \/ DisplayDirect

Spec == Init /\ [][Next]_vars

-----------------------------------------------------------------------------
(* Vocabulary of the properties *)

ValidCloud(c) == 0 <= c.minimum /\ c.minimum <= c.maximum /\ c.maximum <= One

SumMin(clouds) == SumSeq([i \in 1..Len(clouds) |-> clouds[i].minimum])
SumMax(clouds) == SumSeq([i \in 1..Len(clouds) |-> clouds[i].maximum])

Returned == outcome.called /\ outcome.raised = None /\ Len(outcome.result) = 1

Proportions == [i \in 1..Len(outcome.result[1]) |-> outcome.result[1][i].proportion]

TotalReturn(clouds, x) ==
    SumSeq([i \in 1..Len(clouds) |-> clouds[i].expected_return * x[i]])

\* A step that divides every bound, so that the allocations below include
\* every vertex of the region the bounds describe.
Step(clouds) ==
    GCD(One, GCD(GCDSeq([i \in 1..Len(clouds) |-> clouds[i].minimum]),
                 GCDSeq([i \in 1..Len(clouds) |-> clouds[i].maximum])))

\* Every allocation x, in multiples of g, of t over the clouds k.. with
\* x_i >= 0 and minimum_i <= x_i <= maximum_i.
RECURSIVE Allocations(_, _, _, _)
Allocations(clouds, k, t, g) ==
    IF k > Len(clouds) THEN (IF t = 0 THEN {<<>>} ELSE {})
    ELSE IF k = Len(clouds)
    THEN (IF t >= 0 /\ clouds[k].minimum <= t /\ t <= clouds[k].maximum
          THEN {<<t>>} ELSE {})
    ELSE UNION {{<<v>> \o p : p \in Allocations(clouds, k + 1, t - v, g)} :
                v \in {w \in {m * g : m \in 0..(One \div g)} :
                          clouds[k].minimum <= w /\ w <= clouds[k].maximum /\ w <= t}}

HexDigits == {"0", "1", "2", "3", "4", "5", "6", "7", "8", "9",
              "A", "B", "C", "D", "E", "F", "a", "b", "c", "d", "e", "f"}

IsHexColor(c) == Len(c) = 7 /\ c[1] = "#" /\ \A i \in 2..7 : c[i] \in HexDigits

WhiteCombination == <<"#", "C", "C", "C", "C", "C", "C">>
BlackCombination == <<"#", "3", "3", "3", "3", "3", "3">>

FixedTriples ==
    << <<1, 0, 0>>, <<0, 1, 0>>, <<1, 1, 0>>, <<0, 0, 1>>, <<1, 0, 1>>, <<0, 1, 1>> >>

FixedColors ==
    << <<"#", "C", "C", "3", "3", "3", "3">>,
       <<"#", "3", "3", "C", "C", "3", "3">>,
       <<"#", "C", "C", "C", "C", "3", "3">>,
       <<"#", "3", "3", "3", "3", "C", "C">>,
       <<"#", "C", "C", "3", "3", "C", "C">>,
       <<"#", "3", "3", "C", "C", "C", "C">> >>

ExampleClouds ==
    << [asset |-> Label_SP,        expected_return |-> 15, minimum |-> 10, maximum |-> 55],
       [asset |-> Label_Apple,     expected_return |-> 20, minimum |-> 11, maximum |-> 50],
       [asset |-> Label_Microsoft, expected_return |-> 30, minimum |-> 5,  maximum |-> 50],
       [asset |-> Label_Facebook,  expected_return |-> 10, minimum |-> 20, maximum |-> 60] >>

-----------------------------------------------------------------------------
(* Properties *)

\* C1: for a non-empty list of valid clouds whose minimums sum to at most 1
\* and whose maximums sum to at least 1, calculate_optimal_asset_dist raises
\* nothing, and the proportions it returns sum to 1 and lie each within the
\* minimum and maximum of the cloud at the same index.
C1_FeasibleSolved ==
    (/\ outcome.called
     /\ Len(investment_clouds) >= 1
     /\ \A i \in 1..Len(investment_clouds) : ValidCloud(investment_clouds[i])
     /\ SumMin(investment_clouds) <= One
     /\ One <= SumMax(investment_clouds))
    => /\ Returned
       /\ Len(Proportions) = Len(investment_clouds)
       /\ SumSeq(Proportions) = One
       /\ \A i \in 1..Len(investment_clouds) :
             /\ investment_clouds[i].minimum <= Proportions[i]
             /\ Proportions[i] <= investment_clouds[i].maximum

\* A solved two-asset list in which both bounds of the first asset are slack.
C1_Witness ==
    /\ Returned
    /\ Len(investment_clouds) = 2
    /\ SumMin(investment_clouds) <= One /\ One <= SumMax(investment_clouds)
    /\ investment_clouds[1].minimum < Proportions[1]
    /\ Proportions[1] < investment_clouds[1].maximum

C3_Optimal ==
    Returned =>
        \A x \in Allocations(investment_clouds, 1, One, Step(investment_clouds)) :
            TotalReturn(investment_clouds, x) <= TotalReturn(investment_clouds, Proportions)

\* A returned allocation that beats another one strictly, with a negative
\* expected return in the list.
C3_Witness ==
    /\ Returned
    /\ \E i \in 1..Len(investment_clouds) : investment_clouds[i].expected_return < 0
    /\ \E x \in Allocations(investment_clouds, 1, One, Step(investment_clouds)) :
          TotalReturn(investment_clouds, x) < TotalReturn(investment_clouds, Proportions)

\* C4: the constructor raises InvalidInvestmentCloudParameterError exactly
\* when minimum < 0, minimum > maximum or maximum > 1, and then makes no
\* object; otherwise it makes the object with the attributes it was given,
\* so that every cloud that exists has 0 <= minimum <= maximum <= 1.
C4_ConstructorValidates ==
    /\ ctor.called =>
         /\ (ctor.raised = "InvalidInvestmentCloudParameterError")
              <=> (ctor.args[3] < 0 \/ ctor.args[3] > ctor.args[4] \/ ctor.args[4] > One)
         /\ ctor.raised # None => ctor.made = <<>>
         /\ ctor.raised = None =>
              /\ Len(ctor.made) = 1
              /\ ValidCloud(ctor.made[1])
              /\ <<ctor.made[1].asset, ctor.made[1].expected_return,
                    ctor.made[1].minimum, ctor.made[1].maximum>> = ctor.args
    /\ \A i \in 1..Len(investment_clouds) : ValidCloud(investment_clouds[i])

\* A constructor call with a negative expected return and a maximum above 1.
C4_Witness ==
    /\ ctor.called
    /\ ctor.args[2] < 0
    /\ ctor.args[3] >= 0 /\ ctor.args[3] <= ctor.args[4] /\ ctor.args[4] > One
    /\ ctor.raised = "InvalidInvestmentCloudParameterError"

\* C5: whenever calculate_optimal_asset_dist returns for n clouds, the list
\* has n results and the result at index i carries the label of the cloud at
\* index i, unchanged, and the solved value of that cloud's variable.
C5_LabelsCopied ==
    Returned =>
        /\ Len(outcome.result[1]) = Len(investment_clouds)
        /\ \A i \in 1..Len(investment_clouds) :
              /\ outcome.result[1][i].name = investment_clouds[i].asset
              /\ outcome.result[1][i].proportion = outcome.values[i]

C8_RenderExample ==
    (outcome.called /\ investment_clouds = ExampleClouds) =>
        /\ Returned
        /\ SumSeq(Proportions) = One
        /\ Proportions[3] = 50
        /\ Proportions[4] = 20

\* The hard-coded list, solved.
C8_Witness == Returned /\ investment_clouds = ExampleClouds /\ Len(Proportions) = 4

\* C10: the colour table of every call is the six triples other than (0,0,0)
\* and (1,1,1) with b the outermost and r the innermost loop, each rendered
\* as "#" and the red, green and blue channels, 0 as "33" and 1 as "CC".
C10_FixedTable ==
    pie.called =>
        /\ rgb_binary_combinations = FixedTriples
        /\ pie.colors = FixedColors

\* A drawn pie, after an optimisation.
C10_Witness == pie.called /\ outcome.called /\ Len(pie.colors) = 6

====
